---- MODULE Spec2Model ----
(***************************************************************************)
(* terrawrap.utils.cli: execute_command, the retry loop around             *)
(* _execute_command, the transient-error classifier _get_retriable_errors  *)
(* and the audit reporter _post_to_audit_api_url.                          *)
(*                                                                         *)
(* One behaviour of Spec is one top-level call of execute_command.  The    *)
(* arguments of the call are chosen in Init; what the environment decides  *)
(* (whether Popen raises, the child's exit code and output, the interval   *)
(* Jitter sleeps, whether the HTTP POST goes through) is chosen in the     *)
(* action that asks for it.                                                *)
(*                                                                         *)
(* Spec takes one _execute_command call as one step (Attempt).  RunnerSpec *)
(* is the same call of execute_command with _execute_command taken apart:  *)
(* the spawn, the read(1)/poll() loop and the collection of the result are *)
(* steps of their own, interleaved with the steps of the child process.    *)
(***************************************************************************)
EXTENDS Integers, Sequences, FiniteSets, TLC

VARIABLES
    retry,          \* argument retry
    timeout,        \* argument timeout
    audit_api_url,  \* argument audit_api_url
    kwargs,         \* **kwargs: a function from keyword names to values
    caller_kwargs,  \* the keyword arguments as the caller passed them
    print_output,   \* argument print_output
    pc,             \* where execute_command stands
    try_count,      \* local try_count
    time_passed,    \* local time_passed
    exit_code,      \* local exit_code
    stdout,         \* local stdout
    network_errors, \* local network_errors
    jitter,         \* the Jitter object made in line 75
    child,          \* _execute_command: the process object of the current attempt
    rpos,           \* _execute_command: the offset of stdout_read in the capture file
    output,         \* _execute_command: local output, the last read(1) decoded
    echoed,         \* what the current attempt has printed of the child's output
    orphans,        \* children of earlier attempts that are still running
    tmp_files,      \* capture files made by mkstemp that still exist
    tmp_fds,        \* descriptors returned by mkstemp that are still open
    popen_envs,     \* history: the env keyword of every Popen call so far
    popen_calls,    \* subprocess.Popen.call_count (what the unit tests count)
    last,           \* history: what the last _execute_command call returned
    all_transient,  \* history: every attempt so far exited non-zero with a catalog phrase
    checks_below,   \* history: time_passed was below timeout at every check of line 98 so far
    posts,          \* history: the bodies handed to requests.post, with its outcome
    result,         \* the returned (exit_code, stdout), once returned
    err             \* the exception raised to the caller, once raised

vars == <<retry, timeout, audit_api_url, kwargs, caller_kwargs, print_output,
          pc, try_count, time_passed, exit_code, stdout, network_errors, jitter,
          child, rpos, output, echoed, orphans, tmp_files, tmp_fds, popen_envs,
          popen_calls, last, all_transient, checks_below, posts, result, err>>

(***************************************************************************)
(* Bounds of the model.                                                    *)
(***************************************************************************)
MaxTimeout == 6
MaxInterval == 2

(***************************************************************************)
(* Program constants.                                                      *)
(***************************************************************************)
MAX_RETRIES == 5

RETRIABLE_ERRORS ==
    << "RequestError: send request failed",
       "unexpected EOF",
       "Throttling",
       "timeout while waiting for state",
       "ServiceUnavailable: Service Unavailable",
       "failed to decode query XML error response",
       "connection reset",
       "Connection reset",
       "Please try again.",
       "Client.Timeout exceeded",
       "Request limit for operation",
       "try again later",
       "handshake timeout",
       "SSL_ERROR_SYSCALL",
       "ConditionalCheckFailedException",
       "Api Rate Limit Exceeded",
       "TooManyUpdates" >>

(***************************************************************************)
(* Python values.                                                          *)
(***************************************************************************)
None == "None"

\* Python truthiness of an optional string: None and '' are false.
Truthy(v) == v /= None /\ v /= ""

\* No (exit_code, stdout) pair yet.
NoResult == <<>>

NoKwargs == [k \in {} |-> None]

\* The values the arguments are drawn from.
Timeouts == 0..MaxTimeout
AuditUrls == {None, "https://audit.test"}

\* An optional keyword is <<>> when the caller leaves it out, <<v>> when given.
CwdOptions == {<<>>, <<None>>, <<"/repo/config/app">>}
EnvOptions ==
    { <<>>,
      <<[AWS_PROFILE |-> "dev", TF_LOG |-> None]>>,
      <<[AWS_PROFILE |-> None, TF_LOG |-> None]>>,
      <<[AWS_PROFILE |-> "", TF_LOG |-> "DEBUG"]>> }

Kwargs(c, e) ==
    [k \in (IF c = <<>> THEN {} ELSE {"cwd"}) \cup (IF e = <<>> THEN {} ELSE {"env"})
        |-> IF k = "cwd" THEN c[1] ELSE e[1]]

KwargsValues == {Kwargs(c, e) : c \in CwdOptions, e \in EnvOptions}

\* lines 68-73: the env keyword without its entries whose value is None.
FilterEnvFalsy(kw) ==
    IF "env" \in DOMAIN kw
    THEN [kw EXCEPT !["env"] =
            [k \in {j \in DOMAIN kw["env"] : Truthy(kw["env"][j])} |-> kw["env"][k]]]
    ELSE kw
FilterEnv(kw) ==
    IF "env" \in DOMAIN kw
    THEN [kw EXCEPT !["env"] =
            [k \in {j \in DOMAIN kw["env"] : kw["env"][j] /= None} |-> kw["env"][k]]]
    ELSE kw

\* lines 137-141: the env keyword Popen receives, <<>> when there is none.
PopenEnv(kw) == IF "env" \in DOMAIN kw THEN <<kw["env"]>> ELSE <<>>

\* What a child process can do: its exit code and the lines it wrote.
ExitCodes == {0, 1, 255}
Outputs ==
    { <<>>,
      <<"Apply complete!\n">>,
      <<"Error: Throttling: Rate exceeded\n">>,
      <<"Refreshing state...\n", "read: connection reset by peer\n">>,
      <<"error: throttling\n">>,
      <<"Throttling\n", "retrying\n", "unexpected EOF\n">> }

\* The intervals one Jitter.backoff call may sleep.
Intervals == 1..MaxInterval

(***************************************************************************)
(* _get_retriable_errors: the lines of out that contain a catalog phrase.  *)
(***************************************************************************)
\* Python's `error in line` for strings: error is a substring of line.
StrInAtStart(error, line) ==
    Len(error) <= Len(line) /\ SubSeq(line, 1, Len(error)) = error
StrIn(error, line) ==
    \E i \in 1..(Len(line) - Len(error) + 1) :
        SubSeq(line, i, i + Len(error) - 1) = error

LineIsRetriable(line) ==
    \E e \in 1..Len(RETRIABLE_ERRORS) : StrIn(RETRIABLE_ERRORS[e], line)

_get_retriable_errors(out) == SelectSeq(out, LineIsRetriable)

(***************************************************************************)
(* The conditions of execute_command.                                      *)
(***************************************************************************)
\* line 79: while try_count < MAX_RETRIES if retry else 1
LoopConditionOffByOne(r, tc) == IF r THEN tc <= MAX_RETRIES ELSE TRUE
LoopConditionOneShort(r, tc) == IF r THEN tc < MAX_RETRIES - 1 ELSE TRUE
LoopCondition(r, tc) == IF r THEN tc < MAX_RETRIES ELSE TRUE

\* line 92: if exit_code != 0 and network_errors and retry
ShouldRetryIgnoringFlag(ec, errors, r) == ec /= 0 /\ errors /= <<>>
ShouldRetry(ec, errors, r) == ec /= 0 /\ errors /= <<>> /\ r

\* lines 137-141: Popen is called outside any try, so what it raises leaves
\* _execute_command and execute_command.
OnSpawnErrorRetried == "check"
OnSpawnError == "raised"

\* line 98: if time_passed >= timeout
TimedOutStrict(tp, t) == tp > t
TimedOut(tp, t) == tp >= t

(***************************************************************************)
(* Jitter (amplify_aws_utils.resource_helper): backoff sleeps an interval, *)
(* adds it to the time it has slept in all and returns that total.         *)
(***************************************************************************)
NewJitter == [time_passed |-> 0, cycle |-> 0, interval |-> 0]

JitterBackoff(j, interval) ==
    [time_passed |-> j.time_passed + interval,
     cycle |-> j.cycle + 1,
     interval |-> interval]

(***************************************************************************)
(* _post_to_audit_api_url                                                  *)
(***************************************************************************)
\* line 175
AuditStatusInverted(ec) == IF ec /= 0 THEN "SUCCESS" ELSE "FAILED"
AuditStatus(ec) == IF ec = 0 THEN "SUCCESS" ELSE "FAILED"

\* lines 180-190: requests.post inside try/except RequestException; both ways
\* the function returns None and execute_command goes on to its return.
AfterPostPropagating(delivered) == IF delivered THEN "returned" ELSE "raised"
AfterPost(delivered) == "returned"

\* line 103: if audit_api_url and kwargs['cwd'].  The subscript is evaluated
\* only when audit_api_url is true, and raises KeyError without the key.
AuditGuardRaises(url, kw) == Truthy(url) /\ "cwd" \notin DOMAIN kw
AuditGuard(url, kw) == Truthy(url) /\ "cwd" \in DOMAIN kw /\ Truthy(kw["cwd"])

(***************************************************************************)
(* _execute_command: the child process, as the runner sees it.  script is  *)
(* the sequence of lines the child writes to the capture file, written the *)
(* bytes it has written so far.                                            *)
(***************************************************************************)
NoChild == [script |-> <<>>, ec |-> 0, written |-> 0, state |-> "none"]

(***************************************************************************)
(* The state after lines 65-78.                                            *)
(***************************************************************************)
Init ==
    /\ retry \in BOOLEAN
    /\ timeout \in Timeouts
    /\ audit_api_url \in AuditUrls
    /\ caller_kwargs \in KwargsValues
    /\ kwargs = FilterEnv(caller_kwargs)
    /\ print_output \in BOOLEAN
    /\ pc = "loop"
    /\ try_count = 0
    /\ time_passed = 0
    /\ exit_code = 0
    /\ stdout = <<>>
    /\ network_errors = <<>>
    /\ jitter = NewJitter
    /\ child = NoChild
    /\ rpos = 0
    /\ output = ""
    /\ echoed = ""
    /\ orphans = 0
    /\ tmp_files = 0
    /\ tmp_fds = 0
    /\ popen_envs = {}
    /\ popen_calls = 0
    /\ last = NoResult
    /\ all_transient = TRUE
    /\ checks_below = TRUE
    /\ posts = <<>>
    /\ result = NoResult
    /\ err = None

Inputs == <<retry, timeout, audit_api_url, kwargs, caller_kwargs, print_output>>

\* What only the steps of _execute_command change.
Runner == <<child, rpos, output, echoed, orphans>>
PerAttempt == <<network_errors, tmp_files, tmp_fds, popen_envs, Runner>>

(***************************************************************************)
(* Lines 79-96: one turn of the loop up to the break.  Popen either raises *)
(* (the exception leaves execute_command) or starts a child, which exits   *)
(* with code ec having written the lines out.                              *)
(***************************************************************************)
Attempt ==
    /\ pc = "loop"
    /\ LoopCondition(retry, try_count)
    /\ popen_calls' = popen_calls + 1
    /\ popen_envs' = popen_envs \cup {PopenEnv(kwargs)}
    /\ tmp_files' = tmp_files + 1
    /\ tmp_fds' = tmp_fds + 1
    /\ \E spawned \in BOOLEAN, ec \in ExitCodes, out \in Outputs :
        IF ~spawned
        THEN /\ pc' = OnSpawnError
             /\ err' = IF pc' = "raised" THEN "SpawnError" ELSE err
             /\ all_transient' = FALSE
             /\ UNCHANGED <<try_count, exit_code, stdout, last, network_errors>>
        ELSE /\ exit_code' = ec
             /\ stdout' = out
             /\ try_count' = try_count + 1
             /\ last' = <<ec, out>>
             /\ all_transient' =
                    (all_transient /\ ec /= 0 /\ \E l \in 1..Len(out) : LineIsRetriable(out[l]))
             /\ network_errors' = _get_retriable_errors(out)
             /\ pc' = IF ShouldRetry(ec, _get_retriable_errors(out), retry)
                      THEN "check" ELSE "audit"
             /\ err' = err
    /\ UNCHANGED <<Inputs, time_passed, jitter, checks_below, posts, result, Runner>>

\* line 79, the condition false: the loop ends without a break.
LoopExit ==
    /\ pc = "loop"
    /\ ~LoopCondition(retry, try_count)
    /\ pc' = "audit"
    /\ UNCHANGED <<Inputs, PerAttempt, try_count, time_passed, exit_code, stdout, jitter,
                   popen_calls, last, all_transient, checks_below, posts, result, err>>

\* lines 98-99
TimeoutCheck ==
    /\ pc = "check"
    /\ IF TimedOut(time_passed, timeout)
       THEN pc' = "raised" /\ err' = "TimeoutError"
       ELSE pc' = "backoff" /\ err' = err
    /\ checks_below' = (checks_below /\ time_passed < timeout)
    /\ UNCHANGED <<Inputs, PerAttempt, try_count, time_passed, exit_code, stdout, jitter,
                   popen_calls, last, all_transient, posts, result>>

\* line 101
Backoff ==
    /\ pc = "backoff"
    /\ \E interval \in Intervals :
        /\ jitter' = JitterBackoff(jitter, interval)
        /\ time_passed' = jitter'.time_passed
    /\ pc' = "loop"
    /\ UNCHANGED <<Inputs, PerAttempt, try_count, exit_code, stdout, popen_calls, last,
                   all_transient, checks_below, posts, result, err>>

\* lines 103-106
Audit ==
    /\ pc = "audit"
    /\ IF AuditGuardRaises(audit_api_url, kwargs)
       THEN /\ pc' = "raised"
            /\ err' = "KeyError"
            /\ UNCHANGED <<posts, result>>
       ELSE IF AuditGuard(audit_api_url, kwargs)
       THEN \E delivered \in BOOLEAN :
            /\ posts' = Append(posts, [status |-> AuditStatus(exit_code),
                                       output |-> stdout,
                                       delivered |-> delivered])
            /\ pc' = AfterPost(delivered)
            /\ IF pc' = "returned"
               THEN result' = <<exit_code, stdout>> /\ err' = err
               ELSE result' = result /\ err' = "RequestException"
       ELSE /\ pc' = "returned"
            /\ result' = <<exit_code, stdout>>
            /\ UNCHANGED <<posts, err>>
    /\ UNCHANGED <<Inputs, PerAttempt, try_count, time_passed, exit_code, stdout, jitter,
                   popen_calls, last, all_transient, checks_below>>

Next == Attempt \/ LoopExit \/ TimeoutCheck \/ Backoff \/ Audit

Spec == Init /\ [][Next]_vars

\* The call is sequential code: whatever step is next is taken.
FairSpec == Spec /\ WF_vars(Next)

Terminal == pc \in {"returned", "raised"}

TypeOK ==
    /\ retry \in BOOLEAN
    /\ timeout \in Timeouts
    /\ pc \in {"loop", "check", "backoff", "audit", "returned", "raised"}
    /\ try_count \in 0..MAX_RETRIES
    /\ exit_code \in ExitCodes
    /\ stdout \in Outputs
    /\ err \in {None, "SpawnError", "TimeoutError", "KeyError", "RequestException"}

(***************************************************************************)
(* RunnerSpec: execute_command with _execute_command (lines 127-160) taken *)
(* apart.  The child process runs beside the runner: it writes the bytes   *)
(* of its script to the capture file one after the other and then exits.   *)
(* In a script "~" stands for a byte that is not valid UTF-8 and "?" for   *)
(* the replacement character decode(errors="replace") puts in its place.   *)
(***************************************************************************)
RunnerOutputs ==
    { <<>>,
      <<"ok\n">>,
      <<"Throttling\n">>,
      <<"a\n", "~">> }

\* The bytes of a sequence of lines, in the order written.
RECURSIVE Flat(_)
Flat(lines) == IF lines = <<>> THEN "" ELSE Head(lines) \o Flat(Tail(lines))

\* bytes.decode(errors="replace")
RECURSIVE DecodeFrom(_, _)
DecodeFrom(bytes, i) ==
    IF i > Len(bytes) THEN ""
    ELSE (IF SubSeq(bytes, i, i) = "~" THEN "?" ELSE SubSeq(bytes, i, i))
            \o DecodeFrom(bytes, i + 1)

Decode(bytes) == DecodeFrom(bytes, 1)

\* The capture file: what the child has written so far.
FileOf(c) == SubSeq(Flat(c.script), 1, c.written)

\* process.poll(): the exit code once the child has exited, None before.
NoExitCode == 0 - 1
Poll(c) == IF c.state = "exited" THEN c.ec ELSE NoExitCode

\* line 146: if output == '' and process.poll() is not None: break
LoopBreaksOnEmpty(out, polled) == out = ""
LoopBreaksInverted(out, polled) == out = "" /\ polled = NoExitCode
LoopBreaks(out, polled) == out = "" /\ polled /= NoExitCode

\* line 154: stdout_read.seek(0)
RewindToCurrent(pos) == pos
RewindTo(pos) == 0

\* line 155: readlines() from offset pos: the rest of the file cut after
\* each "\n", a last line without "\n" included.
\* i is the next byte to read, cur the line read so far.
RECURSIVE SplitLines(_, _, _)
SplitLines(bytes, i, cur) ==
    IF i > Len(bytes) THEN (IF cur = "" THEN <<>> ELSE <<cur>>)
    ELSE IF SubSeq(bytes, i, i) = "\n"
         THEN <<cur \o "\n">> \o SplitLines(bytes, i + 1, "")
         ELSE SplitLines(bytes, i + 1, cur \o SubSeq(bytes, i, i))

ReadLines(file, pos) == SplitLines(file, pos + 1, "")

\* The invocations RunnerSpec follows: those without an env keyword.
InitRunner == Init /\ "env" \notin DOMAIN caller_kwargs

\* lines 79 and 127-141: mkstemp, open, Popen.
Spawn ==
    /\ pc = "loop"
    /\ LoopCondition(retry, try_count)
    /\ popen_calls' = popen_calls + 1
    /\ popen_envs' = popen_envs \cup {PopenEnv(kwargs)}
    /\ tmp_files' = tmp_files + 1
    /\ tmp_fds' = tmp_fds + 1
    /\ \E spawned \in BOOLEAN, ec \in ExitCodes, script \in RunnerOutputs :
        IF ~spawned
        THEN /\ pc' = OnSpawnError
             /\ err' = IF pc' = "raised" THEN "SpawnError" ELSE err
             /\ all_transient' = FALSE
             /\ UNCHANGED Runner
        ELSE /\ child' = [script |-> script, ec |-> ec, written |-> 0, state |-> "running"]
             /\ orphans' = orphans + (IF child.state = "running" THEN 1 ELSE 0)
             /\ rpos' = 0
             /\ output' = ""
             /\ echoed' = ""
             /\ pc' = "read"
             /\ UNCHANGED <<err, all_transient>>
    /\ UNCHANGED <<Inputs, try_count, time_passed, exit_code, stdout, network_errors,
                   jitter, last, checks_below, posts, result>>

\* The child writes its next byte.
ChildWrite ==
    /\ child.state = "running"
    /\ child.written < Len(Flat(child.script))
    /\ child' = [child EXCEPT !.written = @ + 1]
    /\ UNCHANGED <<Inputs, pc, try_count, time_passed, exit_code, stdout, network_errors,
                   jitter, rpos, output, echoed, orphans, tmp_files, tmp_fds, popen_envs,
                   popen_calls, last, all_transient, checks_below, posts, result, err>>

\* The child exits, having written all it writes.
ChildExit ==
    /\ child.state = "running"
    /\ child.written = Len(Flat(child.script))
    /\ child' = [child EXCEPT !.state = "exited"]
    /\ UNCHANGED <<Inputs, pc, try_count, time_passed, exit_code, stdout, network_errors,
                   jitter, rpos, output, echoed, orphans, tmp_files, tmp_fds, popen_envs,
                   popen_calls, last, all_transient, checks_below, posts, result, err>>

\* lines 144 and 149-150: read(1); a byte read is echoed if print_output, an
\* empty read goes on to the poll of line 146.
ReadByte ==
    /\ pc = "read"
    /\ IF rpos < Len(FileOf(child))
       THEN /\ output' = Decode(SubSeq(FileOf(child), rpos + 1, rpos + 1))
            /\ rpos' = rpos + 1
            /\ echoed' = IF print_output THEN echoed \o output' ELSE echoed
            /\ pc' = "read"
       ELSE /\ output' = ""
            /\ pc' = "poll"
            /\ UNCHANGED <<rpos, echoed>>
    /\ UNCHANGED <<Inputs, try_count, time_passed, exit_code, stdout, network_errors,
                   jitter, child, orphans, tmp_files, tmp_fds, popen_envs,
                   popen_calls, last, all_transient, checks_below, posts, result, err>>

\* lines 146-147: process.poll() after an empty read.
PollAfterEmptyRead ==
    /\ pc = "poll"
    /\ pc' = IF LoopBreaks(output, Poll(child)) THEN "collect" ELSE "read"
    /\ UNCHANGED <<Inputs, PerAttempt, try_count, time_passed, exit_code, stdout,
                   jitter, popen_calls, last, all_transient, checks_below, posts,
                   result, err>>

\* lines 152-160 and 89-96: the exit code, the lines of the rewound file,
\* and back in execute_command the count and the classification.
Collect ==
    /\ pc = "collect"
    /\ LET ec == Poll(child)
           lines == ReadLines(FileOf(child), RewindTo(rpos))
           out == [i \in 1..Len(lines) |-> Decode(lines[i])]
           errors == _get_retriable_errors(out)
       IN  /\ exit_code' = ec
           /\ stdout' = out
           /\ last' = <<ec, out>>
           /\ all_transient' =
                  (all_transient /\ ec /= 0 /\ \E l \in 1..Len(out) : LineIsRetriable(out[l]))
           /\ network_errors' = errors
           /\ pc' = IF ShouldRetry(ec, errors, retry) THEN "check" ELSE "audit"
    /\ rpos' = Len(FileOf(child))
    /\ try_count' = try_count + 1
    /\ UNCHANGED <<Inputs, time_passed, jitter, child, output, echoed, orphans,
                   tmp_files, tmp_fds, popen_envs, popen_calls, checks_below, posts,
                   result, err>>

RunnerStep ==
    Spawn \/ ReadByte \/ PollAfterEmptyRead \/ Collect
        \/ LoopExit \/ TimeoutCheck \/ Backoff \/ Audit

ChildStep == ChildWrite \/ ChildExit

RunnerNext == RunnerStep \/ ChildStep

RunnerSpec == InitRunner /\ [][RunnerNext]_vars

\* The invocations FairRunnerSpec follows: no cwd or env keyword, nothing
\* echoed, and a timeout that is spent at once or the largest one.
InitFairRunner ==
    /\ Init
    /\ caller_kwargs = NoKwargs
    /\ ~print_output
    /\ timeout \in {0, MaxTimeout}

\* The runner is sequential code, and a spawned child goes on until it exits.
FairRunnerSpec ==
    InitFairRunner /\ [][RunnerNext]_vars /\ WF_vars(RunnerStep) /\ WF_vars(ChildStep)

(***************************************************************************)
(* Vocabulary of the properties.                                           *)
(***************************************************************************)
\* The attempt that returned `pair` exited non-zero with a catalog phrase in
\* one of its output lines.
TransientFailure(pair) ==
    /\ pair[1] /= 0
    /\ \E l \in 1..Len(pair[2]) :
        \E e \in 1..Len(RETRIABLE_ERRORS) : StrIn(RETRIABLE_ERRORS[e], pair[2][l])

\* The caller gave an audit URL and a working directory.
AuditConfigured ==
    /\ audit_api_url /= None
    /\ "cwd" \in DOMAIN kwargs
    /\ kwargs["cwd"] /= None

(***************************************************************************)
(* C1.  With retry disabled, Popen is called exactly once in a call of     *)
(* execute_command: never more than once while it runs, and once when it   *)
(* has ended, whatever the exit code and whatever the output contains.     *)
(***************************************************************************)
C1_OneSpawnWithoutRetry ==
    ~retry => /\ popen_calls <= 1
              /\ pc /= "loop" => popen_calls = 1

\* Retry disabled, the only attempt failed with a catalog phrase, and the
\* call returned after that one spawn.
C1_Witness ==
    /\ ~retry
    /\ pc = "returned"
    /\ TransientFailure(last)
    /\ popen_calls = 1

(***************************************************************************)
(* C2.  In every state of a call the number of Popen calls so far is at    *)
(* most MAX_RETRIES = 5.                                                   *)
(***************************************************************************)
C2_AtMostFiveSpawns == popen_calls <= MAX_RETRIES

\* Five spawns were made and the call has ended.
C2_Witness == popen_calls = MAX_RETRIES /\ Terminal

C4_AsClaimed ==
    \A n \in 1..(MAX_RETRIES - 1) :
        (retry /\ pc = "check" /\ try_count = n /\ TransientFailure(last))
            ~> (popen_calls = n + 1)

(***************************************************************************)
(* C4, amended.  With retry enabled, after the n-th attempt, n < 5, failed *)
(* transiently while time_passed is below timeout, an (n+1)-th spawn       *)
(* follows.                                                                *)
(***************************************************************************)
C4_RetriesWhileTimeRemains ==
    \A n \in 1..(MAX_RETRIES - 1) :
        (retry /\ pc = "check" /\ try_count = n /\ TransientFailure(last)
            /\ time_passed < timeout)
            ~> (popen_calls = n + 1)

\* The fifth spawn has been made, after the fourth attempt failed transiently
\* and four backoff waits.
C4_Witness ==
    /\ retry
    /\ all_transient
    /\ jitter.cycle = MAX_RETRIES - 1
    /\ popen_calls = MAX_RETRIES
    /\ time_passed < timeout

(***************************************************************************)
(* C5.  With retry enabled, once an attempt exited 0 or exited non-zero    *)
(* without a catalog phrase, no spawn and no backoff wait follows and the  *)
(* call returns that attempt's pair.                                       *)
(***************************************************************************)
C5_FinalAttemptIsReturned ==
    (retry /\ last /= NoResult /\ ~TransientFailure(last)) =>
        /\ pc \in {"audit", "returned"}
        /\ popen_calls = try_count
        /\ jitter.cycle = try_count - 1
        /\ pc = "returned" => result = last

C8_AsClaimed ==
    (AuditConfigured /\ Terminal /\ err /= "SpawnError") =>
        /\ Len(posts) = 1
        /\ posts[1].status = (IF last[1] = 0 THEN "SUCCESS" ELSE "FAILED")
        /\ posts[1].output = last[2]

(***************************************************************************)
(* C8, amended.  With an audit URL and a working directory, a call that    *)
(* returns a result issued exactly one audit POST, with the status and     *)
(* output of the last attempt, however many attempts occurred; a call that *)
(* raises issued none, and no call issues more than one.                   *)
(***************************************************************************)
C8_OneAuditRecordPerReturn ==
    AuditConfigured =>
        /\ Len(posts) <= 1
        /\ pc = "returned" =>
            /\ Len(posts) = 1
            /\ posts[1].status = (IF last[1] = 0 THEN "SUCCESS" ELSE "FAILED")
            /\ posts[1].output = last[2]
        /\ pc /= "returned" => posts = <<>>

\* A call that retried returned, having posted one record.
C8_Witness ==
    /\ AuditConfigured
    /\ pc = "returned"
    /\ popen_calls >= 2
    /\ Len(posts) = 1

(***************************************************************************)
(* C9.  When the audit POST fails, the call still returns the pair of the  *)
(* last attempt and raises nothing, as it does when the POST succeeds.     *)
(***************************************************************************)
C9_PostFailureIsSwallowed ==
    \A i \in 1..Len(posts) :
        /\ pc = "returned"
        /\ err = None
        /\ result = last

\* The POST failed and the call returned a failed command's pair.
C9_Witness ==
    /\ Len(posts) = 1
    /\ ~posts[1].delivered
    /\ pc = "returned"
    /\ last[1] /= 0

(***************************************************************************)
(* C10.  A POST is issued only with both an audit URL and a working        *)
(* directory; with an audit URL and no cwd keyword the call, unless a      *)
(* spawn error or the timeout error ends it, returns the last attempt's    *)
(* pair without a POST.                                                    *)
(***************************************************************************)
C10_NoCwdNoAudit ==
    /\ posts /= <<>> => AuditConfigured
    /\ (audit_api_url /= None /\ "cwd" \notin DOMAIN kwargs /\ Terminal
            /\ err \notin {"SpawnError", "TimeoutError"}) =>
        /\ pc = "returned"
        /\ posts = <<>>
        /\ result = last

(***************************************************************************)
(* C11.  A Popen call that raises ends the invocation there: the exception *)
(* reaches the caller, nothing is returned or posted, no backoff wait, no  *)
(* classification and no further spawn follows.  (In Spec try_count counts *)
(* the Popen calls that returned, so popen_calls > try_count says that the *)
(* last one raised.)                                                       *)
(***************************************************************************)
C11_SpawnErrorPropagates ==
    /\ [](popen_calls > try_count =>
            /\ pc = "raised"
            /\ err = "SpawnError"
            /\ popen_calls = try_count + 1
            /\ jitter.cycle = try_count
            /\ result = NoResult
            /\ posts = <<>>)
    /\ [][~(popen_calls > try_count)]_vars

\* The spawn of a later attempt failed, after a retry.
C11_Witness ==
    /\ err = "SpawnError"
    /\ popen_calls >= 2
    /\ pc = "raised"

(***************************************************************************)
(* C15.  No capture file, and no descriptor to one, outlives the           *)
(* invocation, and at no time does more than one capture file exist.       *)
(***************************************************************************)
C15_TempFilesRemoved ==
    /\ tmp_files <= 1
    /\ Terminal => (tmp_files = 0 /\ tmp_fds = 0)

(***************************************************************************)
(* C16.  Every Popen call of the invocation receives as env exactly the    *)
(* entries of the caller's env whose value is not None, keys and values    *)
(* unchanged (and no env when the caller gave none).                       *)
(***************************************************************************)
C16_NullEnvEntriesDropped ==
    /\ popen_calls >= 1 => popen_envs /= {}
    /\ \A e \in popen_envs :
        IF "env" \in DOMAIN caller_kwargs
        THEN /\ e /= <<>>
             /\ \A k \in DOMAIN caller_kwargs["env"] :
                    (k \in DOMAIN e[1]) <=> (caller_kwargs["env"][k] /= None)
             /\ \A k \in DOMAIN e[1] :
                    /\ k \in DOMAIN caller_kwargs["env"]
                    /\ e[1][k] = caller_kwargs["env"][k]
        ELSE e = <<>>

\* A second spawn was made with an env that had a None entry and a kept one.
C16_Witness ==
    /\ popen_calls >= 2
    /\ "env" \in DOMAIN caller_kwargs
    /\ \E k \in DOMAIN caller_kwargs["env"] : caller_kwargs["env"][k] = None
    /\ \E e \in popen_envs : e /= <<>> /\ DOMAIN e[1] /= {}

(***************************************************************************)
(* C17.  When the invocation has ended, the number of backoff waits is the *)
(* number of spawns minus one: no wait follows the last attempt.           *)
(***************************************************************************)
C17_WaitOnlyBeforeRetry ==
    Terminal => jitter.cycle = popen_calls - 1

(***************************************************************************)
(* C19.  With retry disabled, a non-zero exit with a catalog phrase in the *)
(* output is returned as the pair: no backoff wait, no timeout error, for  *)
(* every timeout.                                                          *)
(***************************************************************************)
C19_TransientFailureReturnedWithoutRetry ==
    (~retry /\ last /= NoResult /\ TransientFailure(last)) =>
        /\ jitter.cycle = 0
        /\ err /= "TimeoutError"
        /\ pc \in {"audit", "returned"}
        /\ pc = "returned" => result = last

(***************************************************************************)
(* ClassifySpec: lines 91-96 on their own.  The output of an attempt is    *)
(* any sequence of at most MaxLines of the lines below; the step computes  *)
(* network_errors from it and takes the branch of line 92.                 *)
(***************************************************************************)
MaxLines == 3

ClassifyLines ==
    { "Throttling\n",
      "error: throttling\n",
      "read: connection reset by peer\n",
      "Connection Reset\n",
      "Apply complete!\n",
      "TooManyUpdates" }

LineSeqs == UNION {[1..n -> ClassifyLines] : n \in 0..MaxLines}

ClassifyInit ==
    /\ retry \in BOOLEAN
    /\ exit_code \in ExitCodes
    /\ stdout \in LineSeqs
    /\ pc = "classify"
    /\ timeout = MaxTimeout
    /\ audit_api_url = None
    /\ caller_kwargs = NoKwargs
    /\ kwargs = FilterEnv(caller_kwargs)
    /\ print_output = FALSE
    /\ try_count = 1
    /\ time_passed = 0
    /\ network_errors = <<>>
    /\ jitter = NewJitter
    /\ child = NoChild
    /\ rpos = 0
    /\ output = ""
    /\ echoed = ""
    /\ orphans = 0
    /\ tmp_files = 1
    /\ tmp_fds = 1
    /\ popen_envs = {PopenEnv(kwargs)}
    /\ popen_calls = 1
    /\ last = <<exit_code, stdout>>
    /\ all_transient = TRUE
    /\ checks_below = TRUE
    /\ posts = <<>>
    /\ result = NoResult
    /\ err = None

\* lines 91-96
Classify ==
    /\ pc = "classify"
    /\ network_errors' = _get_retriable_errors(stdout)
    /\ pc' = IF ShouldRetry(exit_code, _get_retriable_errors(stdout), retry)
             THEN "check" ELSE "audit"
    /\ UNCHANGED <<Inputs, try_count, time_passed, exit_code, stdout, jitter, Runner,
                   tmp_files, tmp_fds, popen_envs, popen_calls, last, all_transient,
                   checks_below, posts, result, err>>

ClassifySpec == ClassifyInit /\ [][Classify]_vars

(***************************************************************************)
(* C20.  _get_retriable_errors returns exactly the lines that contain a    *)
(* catalog phrase as a case-sensitive substring, in their original order,  *)
(* and the empty list iff no line does.  "Contains" is stated here by      *)
(* concatenation (line = before + phrase + after), and the lines of        *)
(* ClassifyLines that do contain a phrase are listed by hand.              *)
(***************************************************************************)
ContainsPhrase(line) ==
    \E e \in 1..Len(RETRIABLE_ERRORS) :
        \E i \in 0..(Len(line) - Len(RETRIABLE_ERRORS[e])) :
            SubSeq(line, 1, i) \o RETRIABLE_ERRORS[e]
                \o SubSeq(line, i + Len(RETRIABLE_ERRORS[e]) + 1, Len(line)) = line

RECURSIVE MatchingLines(_)
MatchingLines(out) ==
    IF out = <<>> THEN <<>>
    ELSE (IF ContainsPhrase(Head(out)) THEN <<Head(out)>> ELSE <<>>)
            \o MatchingLines(Tail(out))

TransientLines == {"Throttling\n", "read: connection reset by peer\n", "TooManyUpdates"}

C20_RetriableErrorsAreTheMatchingLines ==
    pc /= "classify" =>
        /\ network_errors = MatchingLines(stdout)
        /\ (network_errors = <<>>) <=> (\A l \in 1..Len(stdout) : ~ContainsPhrase(stdout[l]))
        /\ \A l \in 1..Len(stdout) : ContainsPhrase(stdout[l]) <=> stdout[l] \in TransientLines

\* Two matching lines around one that differs from a phrase only in case.
C20_Witness ==
    /\ pc /= "classify"
    /\ stdout = <<"Throttling\n", "error: throttling\n", "read: connection reset by peer\n">>
    /\ network_errors = <<"Throttling\n", "read: connection reset by peer\n">>

(***************************************************************************)
(* C12.  With print_output set, when _execute_command has left its read    *)
(* loop it has echoed every byte the child wrote, in order.                *)
(***************************************************************************)
C12_EveryByteEchoed ==
    (print_output /\ pc = "collect") => echoed = Decode(Flat(child.script))

(***************************************************************************)
(* C13.  Whatever the interleaving of the child's writes and exit with the *)
(* read loop, the output _execute_command returns is the sequence of the   *)
(* lines the child wrote (decoded), in the order written.                  *)
(***************************************************************************)
C13_ReturnedOutputIsWhatTheChildWrote ==
    (child.state /= "none" /\ pc \notin {"read", "poll", "collect"}) =>
        /\ Len(stdout) = Len(child.script)
        /\ \A i \in 1..Len(stdout) : stdout[i] = Decode(child.script[i])
        /\ last = <<exit_code, stdout>>

\* The read loop ended without having read the whole file (the child wrote
\* after the reader's last empty read), and the output returned is complete.
C13_Witness ==
    /\ pc \in {"check", "audit"}
    /\ print_output
    /\ child.script = <<"a\n", "~">>
    /\ Len(echoed) < Len(Flat(child.script))
    /\ stdout = <<"a\n", "?">>

(***************************************************************************)
(* C14.  The result of an attempt is produced only after its child has     *)
(* exited: the exit code is never None, a child runs only while the runner *)
(* is in its read loop, and no attempt is spawned while an earlier child   *)
(* is running, so at most one child is alive at any time.                  *)
(***************************************************************************)
C14_OneChildAtATime ==
    /\ orphans + (IF child.state = "running" THEN 1 ELSE 0) <= 1
    /\ orphans = 0
    /\ child.state = "running" => pc \in {"read", "poll"}
    /\ exit_code /= NoExitCode
    /\ last /= NoResult => last[1] /= NoExitCode
    /\ result /= NoResult => result[1] /= NoExitCode

\* The child of a second attempt is running, the first one's having exited.
C14_Witness ==
    /\ popen_calls = 2
    /\ try_count = 1
    /\ child.state = "running"
    /\ child.written >= 1

(***************************************************************************)
(* C18.  If every spawned child goes on to exit and every step of the      *)
(* runner is taken in the end, every invocation reaches a terminal state:  *)
(* it returns or it raises, with retry enabled and with retry disabled.    *)
(***************************************************************************)
C18_InvocationTerminates == <>Terminal

\* A retrying invocation that made all five attempts has ended.
C18_Witness ==
    /\ Terminal
    /\ retry
    /\ popen_calls = MAX_RETRIES
    /\ child.state = "exited"

====
